---- MODULE Spec2Model ----
(***************************************************************************)
(* A model of the debot session engine (src/src/dengine.rs): the state     *)
(* machine (switch_state, enumerate_actions, execute_action), the action   *)
(* dispatcher (handle_action) and the call facade (run, run_debot,         *)
(* update_options, handle_sdk_err).  The remote call service and the front *)
(* end are the environment: every reply they give is an input.             *)
(***************************************************************************)
EXTENDS Integers, Sequences, FiniteSets, TLC

VARIABLES
    abi,            \* DEngine.abi
    state,          \* DEngine.state, the session state document
    state_machine,  \* DEngine.state_machine, the context graph
    curr_state,     \* DEngine.curr_state
    prev_state,     \* DEngine.prev_state
    target_addr,    \* DEngine.target_addr (Option)
    target_abi,     \* DEngine.target_abi (Option)
    pc,             \* position of the running call
    frame,          \* locals of the running call
    browser,        \* what the front end received during the running call
    hist            \* history of the running call (observation only)

vars == <<abi, state, state_machine, curr_state, prev_state, target_addr,
          target_abi, pc, frame, browser, hist>>

engine == <<abi, state, target_addr, target_abi>>

-----------------------------------------------------------------------------
(* Bounds of the model *)

\* follow-up actions the self contract may return within one context entry
MaxFollow == 2
\* nested getErrorDescription lookups one failed call may cause
MaxLookups == 2
\* account snapshots the call service may return: 1..MaxSnap
MaxSnap == 2
\* log lines of one call that are kept for observation
MaxLog == 6
\* longest print template and highest parameter index of the format calls
MaxTemplate == 3
MaxParamIndex == 1

-----------------------------------------------------------------------------
(* Program constants *)

STATE_ZERO == 0
STATE_CURRENT == 253
STATE_PREV == 254
STATE_EXIT == 255

OPTION_ABI == 1
OPTION_TARGET_ABI == 2
OPTION_TARGET_ADDR == 4

\* the error code of a contract exception
ContractExceptionCode == 3025

\* the bag of cells of an empty cell: the default value of DAction.misc
EMPTY_CELL == "te6ccgEBAQEAAgAAAA=="

\* the ABI the engine starts with when the caller gives none
DEBOT_ABI == "debot_abi"

\* Option<T>: None is <<>>, Some(x) is <<x>>
None == <<>>
Some(x) == <<x>>

-----------------------------------------------------------------------------
(* Values exchanged with the call service *)

\* a JSON string: plain text, or the hex encoding of a text
Str(t) == [enc |-> "raw", text |-> t]
Hex(t) == [enc |-> "hex", text |-> t]

\* context::str_hex_to_utf8: the text a hex string encodes, None when it is
\* no hex encoding of UTF-8
str_hex_to_utf8(s) == IF s.enc = "hex" THEN Some(s.text) ELSE None

SelfAddr == "0:self"
ValidAddrs == {SelfAddr, "0:target", "0:other"}

\* a TonError of the call service
InnerErr(msg, code, exit) ==
    [inner |-> TRUE, message |-> msg, code |-> code, exit_code |-> exit]
OuterErr(msg) ==
    [inner |-> FALSE, message |-> msg, code |-> 0, exit_code |-> None]
NoErr == OuterErr("")

\* inn.message.contains("Wrong data format")
WrongFormatMessages == {"Wrong data format: not a number",
                        "Wrong data format: exit code 101"}
ContainsWrongDataFormat(msg) == msg \in WrongFormatMessages

\* results of the engine's operations: Result<T, String>, or a panic
Ok(m, v) == [ok |-> TRUE, panic |-> FALSE, err |-> "", val |-> v, m |-> m]
Err(m, e) == [ok |-> FALSE, panic |-> FALSE, err |-> e, val |-> None, m |-> m]
Panic(m) == [ok |-> FALSE, panic |-> TRUE, err |-> "panic", val |-> None, m |-> m]

\* The machine an operation runs on: the engine's fields it may write (eng),
\* the replies of the call service it has consumed (k of env.replies, j of
\* env.lookups) and what it has sent out so far (calls to the service, log
\* lines, prompts, key requests, and the rest of the front end's calls).
Machine(eng) ==
    [eng |-> eng, k |-> 1, j |-> 1, calls |-> <<>>, log |-> <<>>,
     inputs |-> 0, keys |-> 0, invoked |-> 0, sent |-> <<>>]

Engine(a, s, ta, tb) ==
    [abi |-> a, state |-> s, target_addr |-> ta, target_abi |-> tb]

Log(m, line) == [m EXCEPT !.log = Append(@, line)]

-----------------------------------------------------------------------------
(* Call facade *)

load_ton_address(m, addr) ==
    IF addr \in ValidAddrs THEN Ok(m, addr)
    ELSE Err(m, "failed to parse address")

get_target(m) ==
    IF m.eng.target_addr = None THEN Err(m, "target address is undefined")
    ELSE IF m.eng.target_abi = None THEN Err(m, "target abi is undefined")
    ELSE Ok(m, [addr |-> m.eng.target_addr[1], abi |-> m.eng.target_abi[1]])

\* the hex-encoded description a getErrorDescription reply carries, decoded
DecodeDesc(output) ==
    IF output.desc = None THEN None            \* "desc" is no string
    ELSE str_hex_to_utf8(output.desc[1])       \* hex::decode, String::from_utf8

\* ton.contracts.run_local: the service answers the k-th call of an operation
\* with env.replies[k] and the j-th getErrorDescription lookup with
\* env.lookups[j]
run_local(m, env, addr, st, a, func, args, emulate_real_txn) ==
    LET lookup == (func = "getErrorDescription")
        call == [addr |-> addr, abi |-> a, state |-> st, func |-> func,
                 args |-> args, emulate |-> emulate_real_txn]
    IN  [m |-> [m EXCEPT !.calls = Append(@, call),
                         !.k = IF lookup THEN @ ELSE @ + 1,
                         !.j = IF lookup THEN @ + 1 ELSE @],
         reply |-> IF lookup THEN env.lookups[m.j] ELSE env.replies[m.k]]

\* a classifier that looks at the error code before the message
handle_sdk_err_CodeFirst(m, env, err) ==
    IF ~err.inner THEN Ok(m, err.message)
    ELSE IF err.code = ContractExceptionCode /\ err.exit_code # None
    THEN LET c == run_local(m, env, SelfAddr, Some(m.eng.state), m.eng.abi,
                            "getErrorDescription",
                            <<<<"error", err.exit_code[1]>>>>, FALSE)
             d == IF c.reply.ok THEN DecodeDesc(c.reply.output) ELSE None
         IN  Ok(c.m, IF d # None THEN d[1] ELSE err.message)
    ELSE IF ContainsWrongDataFormat(err.message) THEN Ok(m, "invalid parameter")
    ELSE Ok(m, err.message)

\* The lookup of the description is self.run(false, "getErrorDescription",
\* {"error": exit_code}, true, false): a call of the self contract whose own
\* failure is classified by handle_sdk_err again before it is dropped.
RECURSIVE handle_sdk_err(_, _, _)
handle_sdk_err(m, env, err) ==
    IF ~err.inner THEN Ok(m, err.message)
    ELSE IF ContainsWrongDataFormat(err.message) THEN Ok(m, "invalid parameter")
    ELSE IF err.code = ContractExceptionCode
    THEN IF err.exit_code # None
         THEN LET c == run_local(m, env, SelfAddr, Some(m.eng.state), m.eng.abi,
                                 "getErrorDescription",
                                 <<<<"error", err.exit_code[1]>>>>, FALSE)
                  m1 == IF c.reply.ok THEN c.m
                        ELSE handle_sdk_err(c.m, env, c.reply.err).m
                  d == IF c.reply.ok THEN DecodeDesc(c.reply.output) ELSE None
              IN  Ok(m1, IF d # None THEN d[1] ELSE err.message)
         ELSE Ok(m, err.message)
    ELSE Ok(m, err.message)

run(m, env, is_target, func, args, with_state, emulate_real_txn) ==
    LET t == get_target(m) IN
    IF is_target /\ ~t.ok THEN Err(m, t.err)
    ELSE
    LET c == run_local(m, env,
                       IF is_target THEN t.val.addr ELSE SelfAddr,
                       IF with_state THEN Some(m.eng.state) ELSE None,
                       IF is_target THEN t.val.abi ELSE m.eng.abi,
                       func,
                       IF args = None THEN <<>> ELSE args[1],
                       emulate_real_txn)
    IN  IF c.reply.ok
        THEN Ok(c.m, [output |-> c.reply.output, account |-> c.reply.account])
        ELSE LET h == handle_sdk_err(c.m, env, c.reply.err) IN Err(h.m, h.val)

\* r?: the rest of an operation runs on the value of r, a failure (or a
\* panic) of r ends the operation
Try(r, rest(_)) == IF r.ok THEN rest(r) ELSE r

run_get(m, env, name) == run(m, env, FALSE, name, None, TRUE, FALSE)

\* a run_debot that keeps the session state as it was
run_debot_Stateless(m, env, name, args) ==
    Try(run(m, env, FALSE, name, args, TRUE, TRUE),
        LAMBDA res : Ok(res.m, res.val.output))

run_debot(m, env, name, args) ==
    Try(run(m, env, FALSE, name, args, TRUE, TRUE),
        LAMBDA res : Ok([res.m EXCEPT !.eng.state = res.val.account],
                        res.val.output))

OptionBit(options, o) == (options \div o) % 2 # 0

set_abi(m, out) ==
    IF ~OptionBit(out.options, OPTION_ABI) THEN Ok(m, None)
    ELSE IF str_hex_to_utf8(out.debotAbi) = None
    THEN Err(m, "cannot convert hex string to debot abi")
    ELSE Ok([m EXCEPT !.eng.abi = str_hex_to_utf8(out.debotAbi)[1]], None)

\* a target ABI that follows the bit of the target address
set_target_abi_OnAddrBit(m, out) ==
    IF ~OptionBit(out.options, OPTION_TARGET_ADDR) THEN Ok(m, None)
    ELSE Ok([m EXCEPT !.eng.target_abi = str_hex_to_utf8(out.targetAbi)], None)

set_target_abi(m, out) ==
    IF ~OptionBit(out.options, OPTION_TARGET_ABI) THEN Ok(m, None)
    ELSE Ok([m EXCEPT !.eng.target_abi = str_hex_to_utf8(out.targetAbi)], None)

set_target_addr(m, out) ==
    IF ~OptionBit(out.options, OPTION_TARGET_ADDR) THEN Ok(m, None)
    ELSE Try(load_ton_address(m, out.targetAddr),
             LAMBDA addr : Ok([m EXCEPT !.eng.target_addr = Some(addr.val)],
                              None))

update_options(m, env) ==
    Try(run_get(m, env, "getDebotOptions"),
        LAMBDA params :
            Try(set_abi(params.m, params.val.output),
                LAMBDA a :
                    Try(set_target_abi(a.m, params.val.output),
                        LAMBDA b : set_target_addr(b.m, params.val.output))))

-----------------------------------------------------------------------------
(* Argument / format codec *)

\* The functions an ABI declares, each with the names and types of its
\* inputs.  The engine starts with DEBOT_ABI; getDebotOptions may replace it
\* by "abi2" and name "target_abi" as the ABI of the target contract.
AbiFunctions(a) ==
    IF a = DEBOT_ABI
    THEN [name \in {"act", "getter", "handler"} |->
            IF name = "act" THEN << <<"data", "bytes">>, <<"n", "uint32">> >>
            ELSE <<>>]
    ELSE IF a = "abi2"
    THEN [name \in {"getter", "handler", "msg"} |->
            IF name = "msg" THEN << <<"n", "uint32">> >> ELSE <<>>]
    ELSE [name \in {"transfer"} |-> << <<"value", "uint128">> >>]

\* arguments that are always asked from the user
query_action_args_Prompting(m, env, act) ==
    LET functions == AbiFunctions(m.eng.abi) IN
    IF act.name \notin DOMAIN functions THEN Err(m, "action not found")
    ELSE Ok([m EXCEPT !.inputs = @ + Len(functions[act.name])],
            Some([i \in 1..Len(functions[act.name]) |->
                    <<functions[act.name][i][1], Str(env.input)>>]))

query_action_args(m, env, act) ==
    IF act.misc # EMPTY_CELL
    THEN Ok(m, Some(<<<<"misc", Str(act.misc)>>>>))
    ELSE
    LET functions == AbiFunctions(m.eng.abi) IN
    IF act.name \notin DOMAIN functions THEN Err(m, "action not found")
    ELSE
    LET arguments == functions[act.name]
        value(i) == IF arguments[i][2] = "bytes" THEN Hex(env.input)
                    ELSE Str(env.input)
        args_json == [i \in 1..Len(arguments) |-> <<arguments[i][1], value(i)>>]
    IN  Ok([m EXCEPT !.inputs = @ + Len(arguments)], Some(args_json))

\* text as a sequence of characters
Digit == <<"0", "1", "2", "3", "4", "5", "6", "7", "8", "9">>

RECURSIVE Decimal(_)
Decimal(n) ==
    IF n < 10 THEN <<Digit[n + 1]>>
    ELSE Append(Decimal(n \div 10), Digit[(n % 10) + 1])

\* fstr.split("{}"): the pieces of s between the occurrences of "{}"
RECURSIVE SplitBraces(_, _)
SplitBraces(s, piece) ==
    IF s = <<>> THEN <<piece>>
    ELSE IF Len(s) >= 2 /\ s[1] = "{" /\ s[2] = "}"
    THEN <<piece>> \o SplitBraces(SubSeq(s, 3, Len(s)), <<>>)
    ELSE SplitBraces(Tail(s), Append(piece, Head(s)))

\* A parameter document gives, for the indexes it knows, the fields param<i>,
\* str<i>, number<i> and utime<i> (each an Option).
NoField == [param |-> None, str |-> None, number |-> None, utime |-> None]
Field(params, i) == IF i \in DOMAIN params THEN params[i] ELSE NoField

format_arg(params, i) ==
    LET f == Field(params, i) IN
    IF f.param # None THEN f.param[1]
    ELSE IF f.str # None
    THEN (IF f.str[1].enc = "hex" THEN f.str[1].text ELSE <<>>)
    ELSE IF f.number # None THEN Decimal(f.number[1])
    ELSE IF f.utime # None
    THEN (IF f.utime[1] = 0 THEN <<"u", "n", "d", "e", "f", "i", "n", "e", "d">>
          ELSE <<"d", "a", "t", "e">> \o Decimal(f.utime[1]))
    ELSE <<>>

RECURSIVE Render(_, _, _)
Render(pieces, params, i) ==
    IF pieces = <<>> THEN <<>>
    ELSE Head(pieces) \o format_arg(params, i)
            \o Render(Tail(pieces), params, i + 1)

format_string(fstr, params) == Render(SplitBraces(fstr, <<>>), params, 0)

-----------------------------------------------------------------------------
(* Actions and contexts *)

\* a DAction; attrs is kept as the attributes the engine reads from it
DAction(name, desc, type, to, misc, instant) ==
    [name |-> name, desc |-> desc, action_type |-> type, to |-> to,
     misc |-> misc, instant |-> instant, sign |-> FALSE,
     args |-> None, func |-> None, fargs |-> None]

is_instant(a) == a.instant
is_engine_call(a) == a.action_type = "CallEngine"
sign_by_user(a) == a.sign
args_attr(a) == a.args
func_attr(a) == a.func
format_args(a) == a.fargs

DContext(id, desc, actions) == [id |-> id, desc |-> desc, actions |-> actions]

\* the characters of the action names that are used as print templates
Chars(name) ==
    CASE name = "Hello" -> <<"H", "e", "l", "l", "o">>
      [] name = "{}!" -> <<"{", "}", "!">>
      [] name = "a{}b{}" -> <<"a", "{", "}", "b", "{", "}">>
      [] OTHER -> <<name>>

\* the reply of the call service to one run_local call
Output ==
    [tag |-> "out", null |-> FALSE, actions |-> None, desc |-> None,
     options |-> 0, debotAbi |-> Str(""), targetAbi |-> Str(""),
     targetAddr |-> "", contexts |-> <<>>, dest |-> "", body |-> "",
     state |-> None, debot |-> "", action |-> None, params |-> <<>>]
NullOutput == [Output EXCEPT !.tag = "null", !.null = TRUE]

Reply(out, account) ==
    [ok |-> TRUE, err |-> NoErr, output |-> out, account |-> account]
Failure(err) == [ok |-> FALSE, err |-> err, output |-> NullOutput, account |-> 0]

-----------------------------------------------------------------------------
(* Action dispatcher *)

load_key(m) == [m EXCEPT !.keys = @ + 1]

run_action(m, env, action) ==
    Try(query_action_args(m, env, action),
        LAMBDA args :
            Try(run_debot(args.m, env, action.name, args.val),
                LAMBDA output :
                    IF output.val.null THEN Ok(output.m, None)
                    ELSE IF output.val.actions = None THEN Panic(output.m)
                    ELSE Ok(output.m, output.val.actions)))

\* ton.contracts.process_message, its failure classified by handle_sdk_err
process_message(m, env) ==
    IF env.process.ok THEN Ok(m, env.process.output)
    ELSE Err(handle_sdk_err(m, env, env.process.err).m,
             handle_sdk_err(m, env, env.process.err).val)

call_target(m, env, dest, a, func, args, keys, st) ==
    Try(load_ton_address(m, dest),
        LAMBDA addr :
            IF ~env.create_ok THEN Err(m, "failed to create message")
            ELSE IF st # None /\ ~env.pack_ok
            THEN Err(m, "unable to build contract image")
            ELSE process_message(
                    [m EXCEPT !.log = Append(@, <<"sending message", func>>),
                              !.sent = Append(@, [dest |-> dest, abi |-> a,
                                                  func |-> func, args |-> args,
                                                  keys |-> keys, state |-> st])],
                    env))

\* a run_sendmsg that sends the body without decoding it against the ABI
send_result_NoDecode(m, env, out, keys) ==
    IF out.state # None /\ ~out.state[1].base64
    THEN Err(m, "cannot decode state")
    ELSE Try(load_ton_address(m, out.dest),
             LAMBDA addr :
                IF addr.val # SelfAddr /\ m.eng.target_abi = None
                THEN Panic(m)
                ELSE call_target(m, env, out.dest,
                                 IF addr.val = SelfAddr THEN m.eng.abi
                                 ELSE m.eng.target_abi[1],
                                 out.body, <<<<"decoded", out.body>>>>, keys,
                                 out.state))

\* run_sendmsg after the self contract has returned dest, body and state
send_result(m, env, out, keys) ==
    IF out.state # None /\ ~out.state[1].base64
    THEN Err(m, "cannot decode state")
    ELSE Try(load_ton_address(m, out.dest),
             LAMBDA addr :
                IF addr.val # SelfAddr /\ m.eng.target_abi = None
                THEN Panic(m)
                ELSE IF out.body \notin DOMAIN AbiFunctions(
                            IF addr.val = SelfAddr THEN m.eng.abi
                            ELSE m.eng.target_abi[1])
                THEN Err(m, "failed to decode msg body")
                ELSE call_target(m, env, out.dest,
                                 IF addr.val = SelfAddr THEN m.eng.abi
                                 ELSE m.eng.target_abi[1],
                                 out.body, <<<<"decoded", out.body>>>>, keys,
                                 out.state))

run_sendmsg(m, env, name, args, keys) ==
    Try(run_debot(m, env, name, args),
        LAMBDA result : send_result(result.m, env, result.val, keys))

run_getmethod(m, env, getmethod, args, result_handler) ==
    Try(update_options(m, env),
        LAMBDA o :
            Try(run(o.m, env, TRUE, getmethod, args, FALSE, FALSE),
                LAMBDA result :
                    run_debot(result.m, env, result_handler,
                              Some(<<<<"output", result.val.output.tag>>>>))))

MiscArgs(a) ==
    IF a.misc # EMPTY_CELL THEN Some(<<<<"misc", Str(a.misc)>>>>) ELSE None

\* the call of the getter a.args_attr() names, when it names one
run_getter(m, env, a) ==
    IF args_attr(a) # None THEN run_debot(m, env, args_attr(a)[1], None)
    ELSE Ok(m, None)

NoFollowUp(r) == IF r.ok THEN Ok(r.m, None) ELSE r

handle_action(m, env, a) ==
    CASE a.action_type = "Empty" -> Ok(m, None)
      [] a.action_type = "RunAction" -> run_action(m, env, a)
      [] a.action_type = "RunMethod" ->
            Try(run_getter(m, env, a),
                LAMBDA res :
                    IF func_attr(a) = None THEN Panic(res.m)
                    ELSE NoFollowUp(run_getmethod(
                            res.m, env, func_attr(a)[1],
                            IF args_attr(a) # None
                            THEN Some(<<<<"output", res.val.tag>>>>) ELSE None,
                            a.name)))
      [] a.action_type = "SendMsg" ->
            Try(run_sendmsg(IF sign_by_user(a) THEN load_key(m) ELSE m, env,
                            a.name, MiscArgs(a), sign_by_user(a)),
                LAMBDA result :
                    Ok([result.m EXCEPT !.log =
                            @ \o <<<<"Transaction succeeded.">>>>
                              \o IF result.val.null THEN <<>>
                                 ELSE <<<<"Result", result.val.tag>>>>],
                       None))
      [] a.action_type = "Invoke" ->
            Try(run_debot(m, env, a.name, None),
                LAMBDA invoke_args :
                    Try(load_ton_address(invoke_args.m, invoke_args.val.debot),
                        LAMBDA debot_addr :
                            IF invoke_args.val.action = None
                            THEN Panic(invoke_args.m)
                            ELSE IF ~env.invoke_ok
                            THEN Err(invoke_args.m, "invoke failed")
                            ELSE Ok([invoke_args.m EXCEPT !.invoked = @ + 1],
                                    None)))
      [] a.action_type = "Print" ->
            IF format_args(a) # None
            THEN Try(run_debot(m, env, format_args(a)[1], MiscArgs(a)),
                     LAMBDA params :
                        Ok(Log(params.m,
                               <<"print", format_string(Chars(a.name),
                                                        params.val.params)>>),
                           None))
            ELSE Ok(Log(m, <<"print", Chars(a.name)>>), None)
      [] a.action_type = "Goto" -> Ok(m, None)
      [] a.action_type = "CallEngine" ->
            Try(run_getter(m, env, a),
                LAMBDA res :
                    IF ~env.routine_ok
                    THEN Err(IF sign_by_user(a) THEN load_key(res.m) ELSE res.m,
                             "routine failed")
                    ELSE IF func_attr(a) = None
                    THEN Err(IF sign_by_user(a) THEN load_key(res.m) ELSE res.m,
                             "routine callback is not specified")
                    ELSE NoFollowUp(run_debot(
                            IF sign_by_user(a) THEN load_key(res.m) ELSE res.m,
                            env, func_attr(a)[1],
                            Some(<<<<"arg1", Str("result")>>>>))))
      [] OTHER ->
            Err(Log(m, <<"unsupported action type">>), "unsupported action type")

\* a load_state that does not log the name and version of the debot
load_state_Silent(m, env) ==
    IF ~run(m, env, FALSE, "getVersion", None, FALSE, TRUE).ok
    THEN Err(run(m, env, FALSE, "getVersion", None, FALSE, TRUE).m,
             "failed to fetch debot state")
    ELSE Try(run(m, env, FALSE, "getVersion", None, FALSE, TRUE),
             LAMBDA result :
                Try(update_options(
                        [result.m EXCEPT !.eng.state = result.val.account],
                        env),
                    LAMBDA o : Ok(o.m, result.val.output.tag)))

load_state(m, env) ==
    IF ~run(m, env, FALSE, "getVersion", None, FALSE, TRUE).ok
    THEN Err(run(m, env, FALSE, "getVersion", None, FALSE, TRUE).m,
             "failed to fetch debot state")
    ELSE Try(run(m, env, FALSE, "getVersion", None, FALSE, TRUE),
             LAMBDA result :
                Try(update_options(
                        [result.m EXCEPT
                            !.eng.state = result.val.account,
                            !.log = Append(@, <<"version",
                                                result.val.output.tag>>)],
                        env),
                    LAMBDA o : Ok(o.m, result.val.output.tag)))

fetch_state(m, env) ==
    Try(load_state(m, env),
        LAMBDA l :
            Try(run_get(l.m, env, "fetch"),
                LAMBDA result : Ok(result.m, result.val.output.contexts)))

-----------------------------------------------------------------------------
(* Inputs: what the self contract and the user may hand to the engine *)

Snaps == 1..MaxSnap

Goto(name, to, instant) == DAction(name, "", "Goto", to, EMPTY_CELL, instant)
Hello == DAction("Hello", "greeting", "Print", STATE_CURRENT, EMPTY_CELL, TRUE)
\* a Print without a format-args function and without a description
Greeting(instant) ==
    DAction("Hello", "", "Print", STATE_CURRENT, EMPTY_CELL, instant)
Act(to, instant) == DAction("act", "", "RunAction", to, "m", instant)
Routine ==
    [DAction("convertTokens", "1.5", "CallEngine", STATE_CURRENT, EMPTY_CELL,
             FALSE) EXCEPT !.func = Some("handler")]
Send(to) == [DAction("send", "", "SendMsg", to, EMPTY_CELL, FALSE)
                EXCEPT !.sign = TRUE]
Method(to) == [DAction("handler", "", "RunMethod", to, EMPTY_CELL, FALSE)
                EXCEPT !.args = Some("getter"), !.func = Some("transfer")]
Unknown(to) == DAction("odd", "", "Unknown", to, EMPTY_CELL, FALSE)

\* a single context ZERO that holds one Print action named "Hello"
HelloGraph(instant) == << DContext(0, "welcome", <<Greeting(instant)>>) >>

\* the context graphs the self contract may publish
Graphs ==
    { HelloGraph(TRUE), HelloGraph(FALSE), \* a menu and a page that greets on entry
      << DContext(0, "menu", <<Goto("page", 1, FALSE), Act(STATE_CURRENT, FALSE),
                               Goto("quit", STATE_EXIT, FALSE)>>),
         DContext(1, "page", <<Hello, Goto("back", STATE_PREV, FALSE),
                               Send(STATE_ZERO)>>) >>,
      \* a chain of instant switches 0 -> 1 -> 2
      << DContext(0, "a", <<Goto("next", 1, TRUE), Goto("skipped", 2, FALSE)>>),
         DContext(1, "b", <<Goto("next", 2, TRUE)>>),
         DContext(2, "c", <<Goto("home", STATE_ZERO, FALSE)>>) >>,
      \* a page that sends the user back where they came from
      << DContext(0, "start", <<Goto("in", 1, FALSE)>>),
         DContext(1, "bounce", <<Goto("return", STATE_PREV, TRUE),
                                 Goto("never", STATE_ZERO, FALSE)>>) >>,
      \* instant actions that return follow-up actions, and an engine call
      << DContext(0, "auto", <<Act(STATE_CURRENT, TRUE), Goto("shown", 1, FALSE),
                               Routine, Hello>>) >>,
      \* two contexts that switch to each other at once
      << DContext(0, "ping", <<Goto("pong", 1, TRUE)>>),
         DContext(1, "pong", <<Goto("ping", STATE_ZERO, TRUE)>>) >>,
      \* no initial context
      << DContext(1, "lonely", <<Goto("exit", STATE_EXIT, TRUE)>>) >> }

\* the follow-up actions a RunAction may return
FollowPool ==
    {Goto("more", STATE_CURRENT, FALSE), Goto("jump", 2, TRUE),
     Act(STATE_CURRENT, TRUE)}

FollowSeqs(n) ==
    UNION {[1..k -> FollowPool] : k \in 0..n}

\* the actions a user may ask the engine to execute
UserActions ==
    {Goto("page", 1, FALSE), Goto("back", STATE_PREV, FALSE),
     Goto("stay", STATE_CURRENT, FALSE), Goto("quit", STATE_EXIT, FALSE),
     Goto("lost", 3, FALSE), Act(STATE_CURRENT, FALSE), Act(STATE_ZERO, FALSE),
     Send(STATE_ZERO), Method(1), Routine, Unknown(STATE_ZERO), Hello}

\* the primary calls of the call service one handling of the action may make
NCalls(a) ==
    CASE a.action_type = "RunAction" -> 1
      [] a.action_type = "RunMethod" -> 4
      [] a.action_type = "SendMsg" -> 1
      [] a.action_type = "Invoke" -> 1
      [] a.action_type = "Print" -> IF a.fargs = None THEN 0 ELSE 1
      [] a.action_type = "CallEngine" -> 2
      [] OTHER -> 0

Env(replies, lookups) ==
    [replies |-> replies, lookups |-> lookups, input |-> "typed",
     routine_ok |-> TRUE, invoke_ok |-> TRUE, create_ok |-> TRUE,
     pack_ok |-> TRUE, process |-> Reply(NullOutput, 0)]

\* n replies: all succeed with out and snap, or the one at position fail
\* fails with err (fail = 0: none fails)
Replies(n, out, snap, fail, err) ==
    [i \in 1..n |-> IF i = fail THEN Failure(err) ELSE Reply(out, snap)]

OptionsOutput(o) ==
    [Output EXCEPT !.options = o, !.debotAbi = Hex("abi2"),
                   !.targetAbi = Hex("target_abi"), !.targetAddr = "0:target"]

\* the outputs the self contract may give to the handling of an action
Outputs(a, budget) ==
    CASE a.action_type = "RunAction" ->
            {NullOutput, Output}
            \cup {[Output EXCEPT !.actions = Some(f)] : f \in FollowSeqs(budget)}
      [] a.action_type = "SendMsg" ->
            {[Output EXCEPT !.dest = d, !.body = b] :
                d \in {SelfAddr, "0:target"}, b \in {"transfer", "handler"}}
      [] a.action_type = "RunMethod" -> {OptionsOutput(o) : o \in {0, 7}}
      [] OTHER -> {Output}

NetworkErr == OuterErr("network is down")

\* the behaviours of the environment during one handling of the action
Envs(a, budget) ==
    {Env(Replies(NCalls(a), out, snap, fail, NetworkErr), <<>>) :
        out \in Outputs(a, budget), snap \in Snaps, fail \in 0..NCalls(a)}

\* the behaviours of the environment during fetch_state; the self contract
\* publishes one context graph for the whole session
FetchEnvs(graphs) ==
    {Env(Replies(3, [OptionsOutput(o) EXCEPT !.contexts = g], snap, fail,
                 NetworkErr), <<>>) :
        o \in {0, 7}, g \in graphs, snap \in Snaps, fail \in 0..3}

Published == IF state_machine = <<>> THEN Graphs ELSE {state_machine}

-----------------------------------------------------------------------------
(* Session controller *)

NoAction == Goto("", STATE_EXIT, FALSE)
NoContext == DContext(STATE_EXIT, "", <<>>)

\* locals of the running call: the public operation (op) and its action, the
\* arguments of switch_state, and the context, the position in its action
\* list and the queue of enumerate_actions
Idle ==
    [op |-> "none", act |-> NoAction, state_to |-> STATE_EXIT, force |-> FALSE,
     fallback |-> FALSE, ctx |-> NoContext, idx |-> 0, sub_actions |-> <<>>,
     followed |-> 0]

NoHist ==
    [pre_curr |-> STATE_EXIT, pre_prev |-> STATE_EXIT, requested |-> STATE_EXIT,
     landed |-> -1, handled |-> "none", jumped |-> FALSE, result |-> "none",
     reply |-> Failure(NoErr), sent |-> 0]

Eng == Engine(abi, state, target_addr, target_abi)

SetEngine(m) ==
    /\ abi' = m.eng.abi
    /\ state' = m.eng.state
    /\ target_addr' = m.eng.target_addr
    /\ target_abi' = m.eng.target_abi

\* What the front end has received: the last state it was notified of during
\* the running call, the last two contexts that were entered, and, of the
\* running context entry, the actions shown to the user, the actions taken
\* from the queue and the actions put into the queue (each with its origin:
\* the context's list, or the follow-ups of an instant action), each in
\* order, whether enumerate_actions has returned false for it, and whether
\* the call service has failed the first call of the action taken last; and
\* the lines logged during the running call.
Blank(entered, before) ==
    [notified |-> -1, entered |-> entered, before |-> before,
     shown |-> <<>>, taken |-> <<>>, queued |-> <<>>, complete |-> FALSE,
     fault |-> FALSE, log |-> <<>>]

Init ==
    /\ abi = DEBOT_ABI
    /\ state = 0
    /\ state_machine = <<>>
    /\ curr_state = STATE_EXIT
    /\ prev_state = STATE_ZERO
    /\ target_addr = None
    /\ target_abi = None
    /\ pc = "idle"
    /\ frame = Idle
    /\ browser = Blank(-1, -1)
    /\ hist = NoHist

\* a switch_state that returns success whatever enumerate_actions returned
Returned_Swallowing(f, ok, prev) ==
    [pc |-> "done",
     frame |-> [Idle EXCEPT !.op = f.op, !.act = f.act,
                            !.fallback = f.fallback],
     result |-> "ok"]

\* switch_state returned to its caller: execute_action falls back once
Returned(f, ok, prev) ==
    IF f.op = "exec" /\ ~f.fallback /\ ~ok
    THEN [pc |-> "switch",
          frame |-> [Idle EXCEPT !.op = f.op, !.act = f.act, !.fallback = TRUE,
                                 !.state_to = prev, !.force = FALSE],
          result |-> "none"]
    ELSE [pc |-> "done",
          frame |-> [Idle EXCEPT !.op = f.op, !.act = f.act,
                                 !.fallback = f.fallback],
          result |-> IF ok THEN "ok" ELSE "err"]

\* the log of the running call after more lines were logged; only its first
\* MaxLog lines are kept
Logged(log, lines) ==
    IF Len(log) + Len(lines) <= MaxLog THEN log \o lines
    ELSE SubSeq(log \o lines, 1, MaxLog)

Called == [NoHist EXCEPT !.pre_curr = curr_state, !.pre_prev = prev_state]

\* the first answer of the call service during the handling of an action
FirstOf(env) ==
    IF env.replies = <<>> THEN Failure(NoErr) ELSE env.replies[1]

\* an execute_action that enters the declared target after a failure too
SwitchAfter_NoFallback(act, ok, prev) ==
    [state_to |-> act.to, force |-> ok]

\* the state execute_action switches to after handle_action, and whether by
\* force
SwitchAfter(act, ok, prev) ==
    [state_to |-> IF ok THEN act.to ELSE prev, force |-> ok]

Tagged(origin, acts) == [i \in 1..Len(acts) |-> <<origin, acts[i]>>]

fetch ==
    /\ pc = "idle"
    /\ \E env \in FetchEnvs(Published) :
        \E r \in {fetch_state(Machine(Eng), env)} :
        /\ SetEngine(r.m)
        /\ state_machine' = IF r.ok THEN r.val ELSE state_machine
        /\ prev_state' = IF r.ok THEN STATE_EXIT ELSE prev_state
        /\ pc' = "done"
        /\ frame' = [Idle EXCEPT !.op = "fetch"]
        /\ hist' = [Called EXCEPT !.result = IF r.ok THEN "ok" ELSE "err"]
        /\ browser' = [browser EXCEPT !.log = Logged(@, r.m.log)]
    /\ UNCHANGED curr_state

start ==
    /\ pc = "idle"
    /\ \E env \in FetchEnvs(Published) :
        \E r \in {fetch_state(Machine(Eng), env)} :
        /\ SetEngine(r.m)
        /\ state_machine' = IF r.ok THEN r.val ELSE state_machine
        /\ pc' = IF r.ok THEN "switch" ELSE "done"
        /\ frame' = [Idle EXCEPT !.op = "start", !.state_to = STATE_ZERO,
                                 !.force = TRUE]
        /\ hist' = [Called EXCEPT !.result = IF r.ok THEN "none" ELSE "err"]
        /\ browser' = [browser EXCEPT !.log = Logged(@, r.m.log)]
    /\ UNCHANGED <<curr_state, prev_state>>

execute_action ==
    /\ pc = "idle"
    /\ \E act \in UserActions : \E env \in Envs(act, 1) :
        \E r \in {handle_action(Machine(Eng), env, act)} :
        /\ SetEngine(r.m)
        /\ pc' = IF r.panic THEN "panic" ELSE "switch"
        /\ frame' = [Idle EXCEPT !.op = "exec", !.act = act,
                        !.fallback = ~r.ok,
                        !.state_to = SwitchAfter(act, r.ok, prev_state).state_to,
                        !.force = SwitchAfter(act, r.ok, prev_state).force]
        /\ hist' = [Called EXCEPT !.handled = IF r.ok THEN "ok" ELSE "err",
                                  !.reply = FirstOf(env),
                                  !.sent = Len(r.m.sent)]
        /\ browser' = [browser EXCEPT !.log =
                            Logged(@, r.m.log
                                      \o IF r.ok \/ r.panic THEN <<>>
                                         ELSE << <<"Action failed", r.err>> >>)]
    /\ UNCHANGED <<state_machine, curr_state, prev_state>>

\* a switch_state that adopts EXIT as the current state
Switched_AdoptsExit(curr, prev, f) ==
    LET s1 == IF f.state_to = STATE_CURRENT THEN curr ELSE f.state_to
        state_to == IF s1 = STATE_PREV THEN prev ELSE s1
    IN  [state_to |-> state_to,
         exits |-> state_to = STATE_EXIT,
         enters |-> state_to # STATE_EXIT /\ (state_to # curr \/ f.force),
         curr |-> IF state_to # curr \/ f.force THEN state_to ELSE curr,
         prev |-> IF state_to # curr \/ f.force THEN curr ELSE prev]

\* a switch_state that keeps prev_state when it adopts the new state
Switched_KeepPrev(curr, prev, f) ==
    LET s1 == IF f.state_to = STATE_CURRENT THEN curr ELSE f.state_to
        state_to == IF s1 = STATE_PREV THEN prev ELSE s1
    IN  [state_to |-> state_to,
         exits |-> state_to = STATE_EXIT,
         enters |-> state_to # STATE_EXIT /\ (state_to # curr \/ f.force),
         curr |-> IF state_to # STATE_EXIT /\ (state_to # curr \/ f.force)
                  THEN state_to ELSE curr,
         prev |-> prev]

\* switch_state(f.state_to, f.force) of an engine in state curr with the
\* previous state prev, up to its loop: the resolved target, whether EXIT
\* is notified, whether the loop is entered, and curr_state and prev_state
\* after it
Switched(curr, prev, f) ==
    LET s1 == IF f.state_to = STATE_CURRENT THEN curr ELSE f.state_to
        state_to == IF s1 = STATE_PREV THEN prev ELSE s1
    IN  [state_to |-> state_to,
         exits |-> state_to = STATE_EXIT,
         enters |-> state_to # STATE_EXIT /\ (state_to # curr \/ f.force),
         curr |-> IF state_to # STATE_EXIT /\ (state_to # curr \/ f.force)
                  THEN state_to ELSE curr,
         prev |-> IF state_to # STATE_EXIT /\ (state_to # curr \/ f.force)
                  THEN curr ELSE prev]

\* switch_state up to its loop: the sentinels are resolved, EXIT is notified,
\* and a new state is adopted
switch_state ==
    /\ pc = "switch"
    /\ \E s \in {Switched(curr_state, prev_state, frame)} :
       LET h == [hist EXCEPT !.requested = frame.state_to,
                             !.landed = s.state_to,
                             !.reply = Failure(NoErr), !.sent = 0]
           ret == Returned(frame, TRUE, prev_state)
       IN  /\ curr_state' = s.curr
           /\ prev_state' = s.prev
           /\ browser' = IF s.exits
                         THEN [browser EXCEPT !.notified = STATE_EXIT]
                         ELSE browser
           /\ IF s.enters
              THEN /\ pc' = "loop"
                   /\ frame' = [frame EXCEPT !.state_to = s.state_to]
                   /\ hist' = h
              ELSE /\ pc' = ret.pc
                   /\ frame' = ret.frame
                   /\ hist' = [h EXCEPT !.result = ret.result]
    /\ UNCHANGED <<engine, state_machine>>

\* self.state_machine.iter().find(|ctx| ctx.id == state_to)
FindContext(id) ==
    LET found == {i \in 1..Len(state_machine) : state_machine[i].id = id} IN
    IF found = {} THEN None
    ELSE Some(state_machine[CHOOSE i \in found : \A j \in found : i <= j])

\* one pass of the loop of switch_state, up to the call of enumerate_actions
enter_context ==
    /\ pc = "loop"
    /\ LET jump_to_ctx == FindContext(frame.state_to) IN
       IF jump_to_ctx # None
       THEN LET ctx == jump_to_ctx[1] IN
            /\ browser' = [notified |-> frame.state_to,
                           entered |-> frame.state_to,
                           before |-> browser.entered,
                           shown |-> <<>>, taken |-> <<>>,
                           queued |-> Tagged("list", SubSeq(ctx.actions, 1, 1)),
                           complete |-> ctx.actions = <<>>,
                           fault |-> FALSE,
                           log |-> Logged(browser.log,
                                          << <<"text", ctx.desc>> >>)]
            /\ IF ctx.actions = <<>>
               THEN LET ret == Returned(frame, TRUE, prev_state) IN
                    /\ pc' = ret.pc
                    /\ frame' = ret.frame
                    /\ hist' = [hist EXCEPT !.result = ret.result]
               ELSE /\ pc' = "enum"
                    /\ frame' = [frame EXCEPT !.ctx = ctx, !.idx = 1,
                                    !.sub_actions = <<ctx.actions[1]>>,
                                    !.followed = 0]
                    /\ hist' = hist
       ELSE LET ret == Returned(frame, TRUE, prev_state) IN
            /\ browser' = IF frame.state_to = STATE_EXIT
                          THEN [browser EXCEPT !.notified = STATE_EXIT]
                          ELSE [browser EXCEPT !.log =
                                    Logged(@, << <<"context not found",
                                                   frame.state_to>> >>)]
            /\ pc' = ret.pc
            /\ frame' = ret.frame
            /\ hist' = [hist EXCEPT !.result = ret.result]
    /\ UNCHANGED <<engine, state_machine, curr_state, prev_state>>

\* the environment of a step that calls no handler
Quiet == Env(<<>>, <<>>)

\* an enumerate_actions that has no branch for engine calls
Classify_NoEngineBranch(act) ==
    IF is_instant(act) THEN "instant" ELSE "show"

\* the branch enumerate_actions takes for an action it has taken from the
\* queue
Classify(act) ==
    IF is_instant(act) THEN "instant"
    ELSE IF is_engine_call(act) THEN "engine"
    ELSE "show"

\* follow-ups pushed to the front of the queue, one after the other
PushBack_Front(sub_actions, vec) ==
    [i \in 1..Len(vec) |-> vec[Len(vec) + 1 - i]] \o sub_actions

\* vec.iter().for_each(|a| sub_actions.push_back(a.clone()))
PushBack(sub_actions, vec) == sub_actions \o vec

\* the declared target compared without resolving CURRENT and PREV
WantsSwitch_Unresolved(act, curr, prev) == act.to # curr

\* whether an executed instant action wants to switch the context
WantsSwitch(act, curr, prev) ==
    LET to == IF act.to = STATE_CURRENT THEN curr
              ELSE IF act.to = STATE_PREV THEN prev
              ELSE act.to
    IN  to # curr

\* one pass of the inner loop of enumerate_actions: the action at the front
\* of the queue is taken and executed or shown; when the queue runs empty the
\* next action of the context seeds it, and after the last one the call
\* returns false to the loop of switch_state, which then returns
enumerate_actions ==
    /\ pc = "enum"
    /\ LET act == Head(frame.sub_actions)
           runs == Classify(act) # "show"
       IN  \E env \in IF runs THEN Envs(act, MaxFollow - frame.followed)
                      ELSE {Quiet} :
           \E r \in {IF runs THEN handle_action(Machine(Eng), env, act)
                     ELSE Ok(Machine(Eng), None)} :
           LET vec == IF Classify(act) = "instant" /\ r.ok /\ r.val # None
                      THEN r.val[1] ELSE <<>>
               sub_actions == PushBack(Tail(frame.sub_actions), vec)
               jump == /\ Classify(act) = "instant"
                       /\ r.ok
                       /\ WantsSwitch(act, curr_state, prev_state)
               last == frame.idx = Len(frame.ctx.actions)
               seed == IF sub_actions = <<>> /\ ~last
                       THEN <<frame.ctx.actions[frame.idx + 1]>> ELSE <<>>
               ret == Returned(frame, r.ok, prev_state)
               b == [browser EXCEPT
                        !.taken = Append(@, act),
                        !.shown = IF runs THEN @ ELSE Append(@, act),
                        !.queued = @ \o Tagged("follow", vec),
                        !.fault = runs /\ ~FirstOf(env).ok /\ NCalls(act) > 0,
                        !.log = Logged(@,
                                    (IF Classify(act) = "instant"
                                        /\ act.desc # ""
                                     THEN << <<"text", act.desc>> >>
                                     ELSE <<>>)
                                    \o r.m.log
                                    \o (IF ~r.ok /\ ~r.panic
                                           /\ ret.pc = "switch"
                                        THEN << <<"Action failed", r.err>> >>
                                        ELSE <<>>))]
           IN  /\ SetEngine(r.m)
               /\ IF r.panic
                  THEN /\ pc' = "panic"
                       /\ browser' = b
                       /\ UNCHANGED <<frame, hist, curr_state>>
                  ELSE IF ~r.ok
                  THEN /\ pc' = ret.pc
                       /\ frame' = ret.frame
                       /\ hist' = [hist EXCEPT !.result = ret.result]
                       /\ browser' = b
                       /\ UNCHANGED curr_state
                  ELSE IF jump
                  THEN /\ curr_state' = act.to
                       /\ pc' = "loop"
                       /\ frame' = [frame EXCEPT !.state_to = act.to,
                                        !.sub_actions = <<>>]
                       /\ hist' = [hist EXCEPT !.jumped = TRUE]
                       /\ browser' = b
                  ELSE IF sub_actions = <<>> /\ last
                  THEN /\ pc' = ret.pc
                       /\ frame' = ret.frame
                       /\ hist' = [hist EXCEPT !.result = ret.result]
                       /\ browser' = [b EXCEPT !.complete = TRUE]
                       /\ UNCHANGED curr_state
                  ELSE /\ pc' = "enum"
                       /\ frame' = [frame EXCEPT
                                        !.sub_actions = sub_actions \o seed,
                                        !.idx = IF seed = <<>> THEN @ ELSE @ + 1,
                                        !.followed = @ + Len(vec)]
                       /\ hist' = hist
                       /\ browser' = [b EXCEPT
                                        !.queued = @ \o Tagged("list", seed)]
                       /\ UNCHANGED curr_state
    /\ UNCHANGED <<state_machine, prev_state>>

\* the caller takes the result; the engine waits for the next call
return ==
    /\ pc = "done"
    /\ pc' = "idle"
    /\ frame' = Idle
    /\ hist' = NoHist
    /\ browser' = Blank(browser.entered, browser.before)
    /\ UNCHANGED <<engine, state_machine, curr_state, prev_state>>

Next ==
    \/ fetch
    \/ start
    \/ execute_action
    \/ switch_state
    \/ enter_context
    \/ enumerate_actions
    \/ return

Spec == Init /\ [][Next]_vars

-----------------------------------------------------------------------------
(* Session controller: properties *)

IsContextId(s) == s \notin {STATE_CURRENT, STATE_PREV, STATE_EXIT}

Interactive(a) == ~is_instant(a) /\ ~is_engine_call(a)

\* the actions put into the queue during the running context entry, and
\* those of them that came from the context's list
QueuedActions == [i \in 1..Len(browser.queued) |-> browser.queued[i][2]]
FromList(q) == q[1] = "list"
ListedActions ==
    LET l == SelectSeq(browser.queued, FromList)
    IN  [i \in 1..Len(l) |-> l[i][2]]
EnteredActions == FindContext(browser.entered)[1].actions

\* C1, as stated: after execute_action returns, curr_state is the action's
\* declared target if no failure was met, and the value prev_state had before
\* the call if execute_action fell back.
C1_AsStated ==
    (pc = "done" /\ frame.op = "exec") =>
        IF frame.fallback THEN curr_state = hist.pre_prev
        ELSE curr_state = frame.act.to

\* C1, amended: when execute_action returns and no instant action switched
\* the context during it, then (a) if handling and the entry of the target
\* succeeded, curr_state is the declared target when that is a context id
\* and is unchanged when it is EXIT; (b) if handling failed, curr_state is
\* the value prev_state had before the call, and is unchanged when that
\* value is EXIT.
C1_ExecuteActionResult ==
    (pc = "done" /\ frame.op = "exec" /\ ~hist.jumped) =>
        /\ (hist.handled = "ok" /\ ~frame.fallback /\ IsContextId(frame.act.to))
              => curr_state = frame.act.to
        /\ (hist.handled = "ok" /\ ~frame.fallback /\ frame.act.to = STATE_EXIT)
              => curr_state = hist.pre_curr
        /\ (hist.handled = "err" /\ hist.pre_prev # STATE_EXIT)
              => curr_state = hist.pre_prev
        /\ (hist.handled = "err" /\ hist.pre_prev = STATE_EXIT)
              => curr_state = hist.pre_curr

\* a failed action has sent the session back to a previous state that
\* differs from the state it was executed in
C1_Witness ==
    /\ pc = "done" /\ frame.op = "exec" /\ ~hist.jumped
    /\ hist.handled = "err"
    /\ hist.pre_prev \notin {STATE_EXIT, hist.pre_curr}
    /\ curr_state = hist.pre_prev

\* C2, as stated: between calls curr_state is EXIT or the id of a context of
\* the graph that was the last context entered; it is never CURRENT, PREV or
\* an id the graph has no context for.
C2_CurrentStateInvariant ==
    pc = "idle" =>
        \/ curr_state = STATE_EXIT
        \/ /\ IsContextId(curr_state)
           /\ FindContext(curr_state) # None
           /\ curr_state = browser.entered

\* C3, as stated: prev_state is the id of the context entered immediately
\* before the one entered last, or EXIT if no context was entered before it,
\* also after a chain of instant switches.
C3_PreviousStateInvariant ==
    pc = "idle" =>
        prev_state = IF browser.before = -1 THEN STATE_EXIT ELSE browser.before

\* C4, as stated: switch_state(CURRENT, force) lands on the value curr_state
\* had before the call and switch_state(PREV, force) on the value prev_state
\* had before the call.
C4_SentinelResolution ==
    [][pc = "switch" =>
        /\ frame.state_to = STATE_CURRENT => hist'.landed = curr_state
        /\ frame.state_to = STATE_PREV => hist'.landed = prev_state]_vars

C7_OneJumpPerEntry ==
    [][/\ pc = "enum" =>
            LET act == Head(frame.sub_actions)
                to == IF act.to = STATE_CURRENT THEN curr_state
                      ELSE IF act.to = STATE_PREV THEN prev_state
                      ELSE act.to
                wants == is_instant(act) /\ to # curr_state
            IN  /\ wants => pc' # "enum"
                /\ pc' = "loop" =>
                      /\ wants
                      /\ frame'.sub_actions = <<>>
                      /\ browser'.shown = browser.shown
                      /\ browser'.taken = Append(browser.taken, act)
                /\ pc' = "enum" => frame'.ctx = frame.ctx
       /\ pc # "enum" =>
            /\ browser'.taken \in {browser.taken, <<>>}
            /\ browser'.shown \in {browser.shown, <<>>}]_vars

\* an instant action has switched the context while a list action of the
\* context was still waiting
C7_Witness ==
    /\ pc = "loop"
    /\ hist.jumped
    /\ browser.taken # <<>>
    /\ Len(ListedActions) < Len(EnteredActions)
    /\ browser.shown = <<>>

-----------------------------------------------------------------------------
(* The call facade and the dispatcher, one call at a time *)

\* the failures the call service may answer a call with
CallErrs ==
    {OuterErr("timeout"),
     OuterErr("Wrong data format: not a number"),
     InnerErr("Wrong data format: not a number", 1001, None),
     InnerErr("Wrong data format: exit code 101", ContractExceptionCode,
              Some(101)),
     InnerErr("Contract execution was terminated", ContractExceptionCode,
              Some(101)),
     InnerErr("Contract execution was terminated", ContractExceptionCode, None),
     InnerErr("account not found", 1001, Some(7))}

\* the answers of the self contract to getErrorDescription
Described ==
    {Reply([Output EXCEPT !.desc = Some(Hex("Not enough balance"))], 0),
     Reply([Output EXCEPT !.desc = Some(Str("zz"))], 0),
     Reply(Output, 0)}
LookupReplies ==
    Described
    \cup {Failure(OuterErr("timeout")),
          Failure(InnerErr("Lookup was terminated", ContractExceptionCode,
                           Some(102))),
          Failure(InnerErr("Wrong data format: not a number", 1001, None))}

\* up to MaxLookups answers: the last one causes no further lookup
LookupSeqs ==
    {Append(l, f) : l \in [1..(MaxLookups - 1) -> LookupReplies],
                    f \in Described \cup {Failure(OuterErr("timeout"))}}

FailingEnvs == {Env(<<Failure(e)>>, l) : e \in CallErrs, l \in LookupSeqs}

\* the answers of the self contract to getDebotOptions
OptionOutputs ==
    {[Output EXCEPT !.options = o, !.debotAbi = da, !.targetAbi = ta,
                    !.targetAddr = addr] :
        o \in 0..7, da \in {Hex("abi2"), Str("zz")},
        ta \in {Hex("target_abi"), Str("zz")}, addr \in {"0:target", "bad"}}

RunActions ==
    {DAction(n, "", "RunAction", STATE_CURRENT, misc, FALSE) :
        n \in {"act", "msg", "absent"}, misc \in {EMPTY_CELL, "m"}}

ActionOutputs == {NullOutput, Output, [Output EXCEPT !.actions = Some(<<>>)]}

\* the call that was made (op, act, env) and what came of it
CallFrame(op, act, env) == [op |-> op, act |-> act, env |-> env]
Outcome(r) ==
    [before |-> Eng, ok |-> r.ok, panic |-> r.panic, err |-> r.err,
     val |-> r.val, calls |-> r.m.calls, inputs |-> r.m.inputs]

InitCall ==
    /\ abi = DEBOT_ABI
    /\ state = 0
    /\ state_machine = <<>>
    /\ curr_state = STATE_EXIT
    /\ prev_state = STATE_ZERO
    /\ target_addr = None
    /\ target_abi = None
    /\ pc = "ready"
    /\ frame = CallFrame("none", NoAction, Quiet)
    /\ browser = Blank(-1, -1)
    /\ hist = Outcome(Ok(Machine(Eng), None))

call_run ==
    /\ pc = "ready"
    /\ \E env \in FailingEnvs \cup {Env(<<Reply(Output, 1)>>, <<>>)} :
       \E is_target \in BOOLEAN :
       \E r \in {run(Machine(Eng), env, is_target, "getter", None, TRUE,
                     FALSE)} :
        /\ SetEngine(r.m)
        /\ frame' = CallFrame("run", NoAction, env)
        /\ hist' = Outcome(r)
    /\ pc' = "called"
    /\ UNCHANGED <<state_machine, curr_state, prev_state, browser>>

call_update_options ==
    /\ pc = "ready"
    /\ \E env \in FailingEnvs
                  \cup {Env(<<Reply(out, 1)>>, <<>>) : out \in OptionOutputs} :
       \E r \in {update_options(Machine(Eng), env)} :
        /\ SetEngine(r.m)
        /\ frame' = CallFrame("update_options", NoAction, env)
        /\ hist' = Outcome(r)
    /\ pc' = "called"
    /\ UNCHANGED <<state_machine, curr_state, prev_state, browser>>

call_run_action ==
    /\ pc = "ready"
    /\ \E act \in RunActions :
       \E env \in FailingEnvs
                  \cup {Env(<<Reply(out, snap)>>, <<>>) :
                            out \in ActionOutputs, snap \in Snaps} :
       \E r \in {handle_action(Machine(Eng), env, act)} :
        /\ SetEngine(r.m)
        /\ frame' = CallFrame("run_action", act, env)
        /\ hist' = Outcome(r)
    /\ pc' = "called"
    /\ UNCHANGED <<state_machine, curr_state, prev_state, browser>>

\* the dispatcher on every kind of action the user may execute
call_handle_action ==
    /\ pc = "ready"
    /\ \E act \in UserActions :
       \E env \in FailingEnvs \cup Envs(act, 1) :
       \E r \in {handle_action(Machine(Eng), env, act)} :
        /\ SetEngine(r.m)
        /\ frame' = CallFrame("handle_action", act, env)
        /\ hist' = Outcome(r)
    /\ pc' = "called"
    /\ UNCHANGED <<state_machine, curr_state, prev_state, browser>>

call_fetch_state ==
    /\ pc = "ready"
    /\ \E env \in FailingEnvs \cup FetchEnvs(Graphs) :
       \E r \in {fetch_state(Machine(Eng), env)} :
        /\ SetEngine(r.m)
        /\ frame' = CallFrame("fetch_state", NoAction, env)
        /\ hist' = Outcome(r)
    /\ pc' = "called"
    /\ UNCHANGED <<state_machine, curr_state, prev_state, browser>>

\* the caller takes the result
call_return ==
    /\ pc = "called"
    /\ pc' = "ready"
    /\ frame' = CallFrame("none", NoAction, Quiet)
    /\ hist' = Outcome(Ok(Machine(Eng), None))
    /\ UNCHANGED <<engine, state_machine, curr_state, prev_state, browser>>

NextCall ==
    \/ call_run
    \/ call_update_options
    \/ call_run_action
    \/ call_handle_action
    \/ call_fetch_state
    \/ call_return

SpecCall == InitCall /\ [][NextCall]_vars

-----------------------------------------------------------------------------
(* Call facade and dispatcher: properties *)

\* the first answer of the call service to the call that was made
FirstReply == frame.env.replies[1]

\* C8: a RunAction whose misc is not the empty cell calls the self contract
\* with exactly {"misc": misc} as arguments and asks the user for no input,
\* whatever the ABI declares for the function and also when the ABI does not
\* know it; every later call is a lookup of an error description.
C8_MiscPassThrough ==
    (pc = "called" /\ frame.op = "run_action" /\ frame.act.misc # EMPTY_CELL) =>
        /\ hist.inputs = 0
        /\ hist.calls # <<>>
        /\ hist.calls[1].func = frame.act.name
        /\ hist.calls[1].args = << <<"misc", Str(frame.act.misc)>> >>
        /\ \A i \in 2..Len(hist.calls) :
              hist.calls[i].func = "getErrorDescription"

\* an action with misc, of a function the ABI declares inputs for, and of a
\* function the ABI does not know, have been run
C8_Witness ==
    /\ pc = "called" /\ frame.op = "run_action" /\ frame.act.misc = "m"
    /\ hist.ok
    /\ \/ frame.act.name = "act" /\ hist.before.abi = DEBOT_ABI
       \/ frame.act.name = "absent"

AbiBit(o) == o \in {1, 3, 5, 7}
TargetAbiBit(o) == o \in {2, 3, 6, 7}
TargetAddrBit(o) == o \in {4, 5, 6, 7}

\* an option synchronization that has read the options of the self contract
Synchronized ==
    /\ pc = "called" /\ frame.op = "update_options"
    /\ FirstReply.ok /\ ~hist.panic

\* C9, as stated: option synchronization changes exactly the fields whose
\* bit is set, each to the value the self contract gives for it, and keeps
\* every field whose bit is clear.
C9_AsStated ==
    Synchronized =>
        LET out == FirstReply.output IN
        /\ IF AbiBit(out.options)
           THEN out.debotAbi.enc = "hex" => abi = out.debotAbi.text
           ELSE abi = hist.before.abi
        /\ IF TargetAbiBit(out.options)
           THEN target_abi = (IF out.targetAbi.enc = "hex"
                              THEN Some(out.targetAbi.text) ELSE None)
           ELSE target_abi = hist.before.target_abi
        /\ IF TargetAddrBit(out.options)
           THEN out.targetAddr \in ValidAddrs =>
                    target_addr = Some(out.targetAddr)
           ELSE target_addr = hist.before.target_addr

\* C9, amended: a field whose bit is clear keeps its value, whether the
\* synchronization succeeds or fails; a synchronization that succeeds has
\* set every field whose bit is set to the value the self contract gives
\* for it; one that fails because the self ABI cannot be decoded has changed
\* no field, whatever the bits.
C9_OptionSync ==
    Synchronized =>
        LET out == FirstReply.output IN
        /\ ~AbiBit(out.options) => abi = hist.before.abi
        /\ ~TargetAbiBit(out.options) => target_abi = hist.before.target_abi
        /\ ~TargetAddrBit(out.options) => target_addr = hist.before.target_addr
        /\ hist.ok =>
              /\ AbiBit(out.options) => abi = out.debotAbi.text
              /\ TargetAbiBit(out.options) =>
                    target_abi = (IF out.targetAbi.enc = "hex"
                                  THEN Some(out.targetAbi.text) ELSE None)
              /\ TargetAddrBit(out.options) =>
                    target_addr = Some(out.targetAddr)
        /\ (~hist.ok /\ AbiBit(out.options) /\ out.debotAbi.enc # "hex") =>
              Eng = hist.before

\* the scenario: only the bit of the target address is set
C9_Witness ==
    /\ Synchronized /\ hist.ok
    /\ FirstReply.output.options = 4
    /\ FirstReply.output.debotAbi.text # hist.before.abi
    /\ target_addr = Some(FirstReply.output.targetAddr)
    /\ target_addr # hist.before.target_addr
    /\ abi = hist.before.abi
    /\ target_abi = hist.before.target_abi

\* C10: a failed call returns as its text (a) "invalid parameter" for an
\* SDK error whose message tells of a wrong data format; (b) for an SDK
\* error with the code of a contract exception and a numeric exit code, the
\* decoded description when the getErrorDescription lookup succeeds and
\* decodes, and the original message when the lookup fails or does not
\* decode; (c) the original message for every other error.
C10_ErrorText ==
    (pc = "called" /\ frame.op = "run" /\ hist.calls # <<>> /\ ~FirstReply.ok) =>
        LET e == FirstReply.err
            l == frame.env.lookups[1]
            decodes == l.ok /\ l.output.desc # None
                            /\ l.output.desc[1].enc = "hex"
        IN  /\ ~hist.ok /\ ~hist.panic
            /\ hist.err =
                  IF ~e.inner THEN e.message
                  ELSE IF e.message \in WrongFormatMessages
                  THEN "invalid parameter"
                  ELSE IF e.code = 3025 /\ e.exit_code # None
                  THEN (IF decodes THEN l.output.desc[1].text ELSE e.message)
                  ELSE e.message

\* a contract exception whose description the self contract has told
C10_Witness ==
    /\ pc = "called" /\ frame.op = "run" /\ ~FirstReply.ok
    /\ FirstReply.err.code = 3025 /\ FirstReply.err.exit_code # None
    /\ frame.env.lookups[1].ok
    /\ hist.err = "Not enough balance"

-----------------------------------------------------------------------------
(* Dispatcher under execute_action: properties *)

\* execute_action has handled its action and is about to switch the state
JustHandled ==
    /\ pc \in {"switch", "panic"} /\ frame.op = "exec" /\ hist.landed = -1

\* the action was a SendMsg and the self contract has answered its call
SendAnswered ==
    /\ JustHandled
    /\ frame.act.action_type = "SendMsg"
    /\ hist.reply.ok

\* C11: execute_action of a SendMsg whose destination is the self address
\* and whose body names a function the self ABI does not declare fails at
\* the decoding of the body: no message is created or submitted, the failure
\* is logged, and the engine falls back to prev_state with force = false.
C11_DecodeFailure ==
    (/\ SendAnswered
     /\ hist.reply.output.dest = SelfAddr
     /\ hist.reply.output.body \notin DOMAIN AbiFunctions(abi)) =>
        /\ pc = "switch"
        /\ hist.handled = "err"
        /\ hist.sent = 0
        /\ browser.log # <<>>
        /\ browser.log[Len(browser.log)] =
              <<"Action failed", "failed to decode msg body">>
        /\ frame.fallback
        /\ frame.state_to = hist.pre_prev
        /\ prev_state = hist.pre_prev
        /\ ~frame.force

\* a message to the self address has failed at decoding while the session
\* had a previous state other than the current one to fall back to
C11_Witness ==
    /\ SendAnswered /\ pc = "switch"
    /\ hist.reply.output.dest = SelfAddr
    /\ hist.reply.output.body = "transfer"
    /\ hist.handled = "err"
    /\ frame.state_to \notin {curr_state, STATE_EXIT}

\* C12, as stated: a SendMsg whose destination is not the self address while
\* no target ABI is configured makes handle_action return a failure, which
\* execute_action turns into log and fallback; the process does not
\* terminate and no message is submitted.
C12_NoTargetAbi ==
    (/\ SendAnswered
     /\ hist.reply.output.dest # SelfAddr
     /\ target_abi = None) =>
        /\ pc = "switch"
        /\ hist.handled = "err"
        /\ hist.sent = 0
        /\ frame.fallback
\* a RunAction whose call of the self contract has succeeded
ActionAnswered ==
    /\ pc = "called" /\ frame.op = "run_action"
    /\ hist.calls # <<>> /\ FirstReply.ok

\* C13, as stated: RunAction returns follow-up actions exactly when the
\* output of the call holds the field "actions"; for every output without
\* it, it returns no follow-ups and neither fails nor crashes.
C13_FollowUps ==
    ActionAnswered =>
        /\ ~hist.panic
        /\ hist.ok
        /\ hist.val = FirstReply.output.actions
-----------------------------------------------------------------------------
(* format_string on its own: every template and parameter document *)

TemplateChars == {"a", "{", "}"}

Templates == UNION {[1..n -> TemplateChars] : n \in 0..MaxTemplate}

\* the fields a parameter document may hold for one index
ParamFields ==
    {NoField,
     [NoField EXCEPT !.param = Some(<<"x">>)],
     [NoField EXCEPT !.str = Some(Hex(<<"s">>))],
     [NoField EXCEPT !.number = Some(12)],
     [NoField EXCEPT !.utime = Some(0)]}

ParamDocs == UNION {[D -> ParamFields] : D \in SUBSET (0..MaxParamIndex)}

InitFormat ==
    /\ abi = DEBOT_ABI
    /\ state = 0
    /\ state_machine = <<>>
    /\ curr_state = STATE_EXIT
    /\ prev_state = STATE_ZERO
    /\ target_addr = None
    /\ target_abi = None
    /\ pc = "format"
    /\ \E fstr \in Templates : \E params \in ParamDocs :
          frame = [fstr |-> fstr, params |-> params]
    /\ browser = Blank(-1, -1)
    /\ hist = [out |-> <<>>]

call_format_string ==
    /\ pc = "format"
    /\ hist' = [out |-> format_string(frame.fstr, frame.params)]
    /\ pc' = "formatted"
    /\ UNCHANGED <<engine, state_machine, curr_state, prev_state, frame,
                   browser>>

NextFormat == call_format_string

SpecFormat == InitFormat /\ [][NextFormat]_vars

\* the template holds the two characters "{}" next to each other
HasPlaceholder(fstr) ==
    \E i \in 1..(Len(fstr) - 1) : fstr[i] = "{" /\ fstr[i + 1] = "}"

\* C14, as stated: for every template without the placeholder "{}" and
\* every parameter document, format_string returns the template unchanged.
C14_NoPlaceholder ==
    (pc = "formatted" /\ ~HasPlaceholder(frame.fstr)) =>
        hist.out = frame.fstr
-----------------------------------------------------------------------------
(* The session of one greeting *)

\* start has returned successfully on the graph of one Print action
Greeted(instant) ==
    /\ pc = "done" /\ frame.op = "start" /\ hist.result = "ok"
    /\ state_machine = HelloGraph(instant)

HelloLine == <<"print", Chars("Hello")>>

\* C15, as stated: fetching and entering a session whose graph is the single
\* context ZERO with one Print action named "Hello" (no format-args
\* function) makes the log receive exactly "Hello", and the only state
\* change is the entry into ZERO.
C15_AsStated ==
    (\E instant \in BOOLEAN : Greeted(instant)) =>
        /\ browser.log = <<HelloLine>>
        /\ curr_state = STATE_ZERO
        /\ browser.notified = STATE_ZERO
        /\ ~hist.jumped

\* C15, amended: the log receives, in this order, the name and version of
\* the debot (load_state), the description of context ZERO (switch_state)
\* and, when the Print action is instant, "Hello" once; a Print action that
\* is not instant is shown to the user and prints nothing. The front end is
\* notified of ZERO only, current_state is ZERO, previous_state is the
\* current_state of before, and no instant switch happens.
C15_HelloSession ==
    \A instant \in BOOLEAN :
        Greeted(instant) =>
            /\ Len(browser.log) = (IF instant THEN 3 ELSE 2)
            /\ browser.log[1][1] = "version"
            /\ browser.log[2] = <<"text", "welcome">>
            /\ instant => browser.log[3] = HelloLine
            /\ browser.shown = (IF instant THEN <<>> ELSE <<Greeting(FALSE)>>)
            /\ curr_state = STATE_ZERO
            /\ prev_state = hist.pre_curr
            /\ browser.notified = STATE_ZERO
            /\ browser.complete
            /\ ~hist.jumped

\* the session of an instant greeting has been started from a session that
\* was in ZERO already
C15_Witness ==
    /\ Greeted(TRUE)
    /\ hist.pre_curr = STATE_ZERO
    /\ HelloLine = browser.log[Len(browser.log)]
-----------------------------------------------------------------------------
(* The session state document *)

\* the calls of the running operation that the call service has answered
\* from env.replies: all but the lookups of an error description
PrimaryCalls ==
    SelectSeq(hist.calls, LAMBDA c : c.func # "getErrorDescription")

\* the state the engine holds after the calls in W have written it
LastWritten(W) ==
    IF W = {} THEN hist.before.state
    ELSE frame.env.replies[CHOOSE i \in W : \A j \in W : j <= i].account

\* the successful calls made as by runDebotCall (on the self contract, with
\* the session state and as a real transaction)
DebotCalls ==
    {i \in 1..Len(PrimaryCalls) :
        /\ frame.env.replies[i].ok
        /\ PrimaryCalls[i].emulate
        /\ PrimaryCalls[i].state # None}

\* the successful getVersion call of load_state
VersionCalls ==
    {i \in 1..Len(PrimaryCalls) :
        /\ frame.env.replies[i].ok
        /\ PrimaryCalls[i].func = "getVersion"}

\* C16, as stated: the session state changes only as the effect of a
\* successful runDebotCall, which overwrites it with the account snapshot of
\* that call; no other operation (getter calls, target calls, the lookup of
\* an error description, state loading, transitions) writes it.
C16_AsStated ==
    pc = "called" => state = LastWritten(DebotCalls)

\* C16, amended: the session state is written by a successful runDebotCall
\* and by a successful getVersion call of load_state, each with the account
\* snapshot the call returned; nothing else writes it: after an operation it
\* is the snapshot of the last such call, and unchanged if there was none.
C16_StateWrites ==
    pc = "called" => state = LastWritten(DebotCalls \cup VersionCalls)

\* a RunMethod has called the getter of its arguments and its handler as
\* runDebotCall and, between the two, the getter of the options and the
\* method of the target, which wrote nothing
C16_Witness ==
    /\ pc = "called" /\ frame.op = "handle_action"
    /\ frame.act.action_type = "RunMethod"
    /\ hist.ok
    /\ Len(hist.calls) = 4
    /\ DebotCalls = {1, 4}
    /\ ~PrimaryCalls[2].emulate /\ ~PrimaryCalls[3].emulate
    /\ state # hist.before.state
-----------------------------------------------------------------------------
(* start and fetch *)

\* start has fetched the graph and calls switch_state(STATE_ZERO, true)
StartSwitches == pc = "switch" /\ frame.op = "start"

\* C17: start() is fetch() followed by switch_state(STATE_ZERO, true). Both
\* run the same fetch_state and fail with it; after it they differ only in
\* prev_state, which fetch() has set to EXIT and start() has left alone, and
\* the switch of start() ends in the very state the switch after fetch()
\* ends in: the same graph, curr_state and prev_state, the same frame of
\* the loop and the same notification.
C17_StartIsFetchThenSwitch ==
    [][StartSwitches =>
        \E t \in {Switched(curr_state, STATE_EXIT, frame)} :
            /\ curr_state' = t.curr
            /\ prev_state' = t.prev
            /\ pc' = (IF t.enters THEN "loop" ELSE "done")
            /\ frame' = [frame EXCEPT !.state_to = t.state_to]
            /\ browser' = (IF t.exits
                           THEN [browser EXCEPT !.notified = STATE_EXIT]
                           ELSE browser)
            /\ state_machine' = state_machine
            /\ <<engine>>' = <<engine>>]_vars

\* start has entered ZERO from a session whose prev_state was neither EXIT
\* nor its curr_state
C17_Witness ==
    /\ pc = "loop" /\ frame.op = "start"
    /\ hist.pre_prev \notin {STATE_EXIT, hist.pre_curr}
    /\ hist.pre_curr # STATE_EXIT
    /\ curr_state = STATE_ZERO
    /\ prev_state = hist.pre_curr
-----------------------------------------------------------------------------
(* Instant switches and failures during the entry of a context *)

\* the target of an action with CURRENT and PREV resolved
ResolvedTarget(act) ==
    IF act.to = STATE_CURRENT THEN curr_state
    ELSE IF act.to = STATE_PREV THEN prev_state
    ELSE act.to

\* C18, as stated: when the resolved target of an executed instant action
\* differs from curr_state, enumerate_actions sets curr_state to the
\* resolved target, never to the sentinel itself, and the loop of
\* switch_state then enters the context of the resolved id.
C18_ResolvedTarget ==
    [][(pc = "enum" /\ pc' = "loop") =>
        /\ curr_state' = ResolvedTarget(Head(frame.sub_actions))
        /\ frame'.state_to = ResolvedTarget(Head(frame.sub_actions))
        /\ IsContextId(curr_state') \/ curr_state' = STATE_EXIT]_vars
-----------------------------------------------------------------------------
(* Termination *)

\* The engine is sequential code: once a call has begun, its next step is
\* taken as soon as the calls of the step before have returned.
SpecLive ==
    /\ Spec
    /\ WF_vars(switch_state)
    /\ WF_vars(enter_context)
    /\ WF_vars(enumerate_actions)

Running == pc \in {"switch", "loop", "enum"}

\* C19, as stated: once execute_action, start or a switch of the state has
\* begun it runs to its end: for every graph and every action, if every call
\* of the call service and of the front end returns, the operation returns
\* success or failure to its caller (or ends the thread by a panic).
C19_Termination == Running ~> (pc \in {"done", "panic"})
\* C20: the failure of an instant action or of an engine call during the
\* entry of a context is not recovered inside the loop of switch_state: the
\* processing of the context stops with this step, nothing more is taken or
\* shown, curr_state and prev_state keep the values the switch has assigned,
\* and switch_state returns the failure to its caller: start returns it;
\* execute_action, as for any failure, falls back once to prev_state
\* without force, and returns it when it was falling back already.
C20_EntryFailure ==
    [][(pc = "enum" /\ browser'.fault) =>
        /\ curr_state' = curr_state
        /\ prev_state' = prev_state
        /\ browser'.taken = Append(browser.taken, Head(frame.sub_actions))
        /\ browser'.shown = browser.shown
        /\ ~browser'.complete
        /\ IF frame.op = "exec" /\ ~frame.fallback
           THEN /\ pc' = "switch"
                /\ frame'.fallback
                /\ frame'.state_to = prev_state
                /\ ~frame'.force
           ELSE /\ pc' = "done"
                /\ hist'.result = "err"]_vars

\* start has returned the failure of the first instant action of context
\* ZERO, whose other actions were not processed
C20_Witness ==
    /\ pc = "done" /\ frame.op = "start"
    /\ browser.fault
    /\ hist.result = "err"
    /\ curr_state = STATE_ZERO
    /\ prev_state = hist.pre_curr
    /\ browser.taken = <<Act(STATE_CURRENT, TRUE)>>
    /\ Len(FindContext(STATE_ZERO)[1].actions) > 1
-----------------------------------------------------------------------------
(* The switch to EXIT *)

\* the target switch_state was asked for, CURRENT and PREV resolved
ResolvedRequest ==
    IF frame.state_to = STATE_CURRENT THEN curr_state
    ELSE IF frame.state_to = STATE_PREV THEN prev_state
    ELSE frame.state_to

\* C21: a switch_state whose resolved target is EXIT only notifies the front
\* end of the end of the session: it returns success, enters no context,
\* executes and shows no action, logs nothing, and leaves curr_state,
\* prev_state, the context graph and the session state as they were,
\* whether forced or not.
C21_ExitOnlyNotifies ==
    [][(pc = "switch" /\ ResolvedRequest = STATE_EXIT) =>
        /\ pc' = "done"
        /\ hist'.result = "ok"
        /\ hist'.landed = STATE_EXIT
        /\ browser' = [browser EXCEPT !.notified = STATE_EXIT]
        /\ curr_state' = curr_state
        /\ prev_state' = prev_state
        /\ state_machine' = state_machine
        /\ <<engine>>' = <<engine>>]_vars

\* a session that was in a context has fallen back, without force, to a
\* previous state that was EXIT
C21_Witness ==
    /\ pc = "done" /\ frame.op = "exec" /\ frame.fallback
    /\ hist.requested = STATE_EXIT
    /\ hist.landed = STATE_EXIT
    /\ browser.notified = STATE_EXIT
    /\ IsContextId(curr_state)
    /\ prev_state = STATE_EXIT
-----------------------------------------------------------------------------
(* Lookups of an error description *)

\* the getErrorDescription calls the running operation has made
Lookups == SelectSeq(hist.calls, LAMBDA c : c.func = "getErrorDescription")

\* C22, as stated: the classification of one failed call makes at most one
\* getErrorDescription call and then returns, whatever the call service
\* answers, also when the lookup itself fails with a contract exception:
\* there is no further lookup.
C22_OneLookup ==
    (pc = "called" /\ frame.op = "run" /\ hist.calls # <<>> /\ ~FirstReply.ok) =>
        /\ ~hist.ok /\ ~hist.panic
        /\ Len(Lookups) <= 1
-----------------------------------------------------------------------------
(* The session state after a failed action *)

\* the dispatcher has returned a failure for an action of the user
ActionFailed ==
    /\ pc = "called" /\ frame.op = "handle_action"
    /\ ~hist.ok /\ ~hist.panic

\* C23, as stated: when the handling of an action of the user fails, for
\* every kind of action and every place of the failure, the session state
\* at the start of the fallback of execute_action is the state of before
\* the call.
C23_StateKept ==
    ActionFailed => state = hist.before.state

====
